---- MODULE Spec2Model ----
(***************************************************************************)
(* Startup Company Data Manager: the request handlers of main.py over the  *)
(* companies/products store of models.py, with the payload schemas of      *)
(* schemas.py, and retry_with_backoff of generate_data.py.                 *)
(*                                                                         *)
(* The store is the committed content of the two tables, each kept as the  *)
(* sequence of its rows in insertion order.  A handler is an operator from *)
(* the tables and the request to the tables it leaves committed and its    *)
(* response; a request is one step that applies it (requests are handled   *)
(* one after another).  A handler that raises before its db.commit()       *)
(* leaves the committed tables as they were.  SpecConc takes the lookup of  *)
(* a name and the commit of the insert as two steps of a worker thread,    *)
(* for requests handled at the same time; sessions is what each worker has *)
(* in hand.                                                                *)
(***************************************************************************)
EXTENDS Integers, Sequences, FiniteSets, TLC

VARIABLES companies, products, last, sessions, max_retries, attempt, rpc,
          history

vars == <<companies, products, last, sessions, max_retries, attempt, rpc,
          history>>

(***************************************************************************)
(* Bounds of the model.                                                    *)
(***************************************************************************)
MaxCompanyId == 2
MaxProductId == 2
MaxDocLen == 2
MaxListedId == 3
MaxPage == 3
MaxCalls == 5

(***************************************************************************)
(* Values.                                                                 *)
(***************************************************************************)
None == "None"

\* Company names: "a" and "A" differ in letter case only.
Names == {"a", "A", "b", "c"}

\* SQL lower() as used by func.lower(...) in the name lookups.
Lower(s) ==
    CASE s = "A" -> "a"
      [] s = "B" -> "b"
      [] s = "C" -> "c"
      [] OTHER -> s

Industries == {"FinTech", "HealthTech", "EdTech", "E-commerce", "SaaS"}
PricingModels == {"Free", "Freemium", "Subscription", "Enterprise"}

FoundedYearMin == 2015
FoundedYearMax == 2024
PageSizeLimit == 100

CompanyFields == {"name", "tagline", "description", "industry", "founded_year",
                  "employee_count", "headquarters", "website_url"}
CompanyRequired == CompanyFields \ {"website_url"}

ProductFields == {"name", "description", "target_audience", "key_features",
                  "pricing_model"}

\* Restriction of a record to a set of its fields (a JSON body with the
\* other keys left out).
Restrict(r, S) == [f \in S |-> r[f]]

(***************************************************************************)
(* Request bodies.  A body is a function from the JSON keys it carries to  *)
(* their values.  Variant 1 sets every field (website_url included),       *)
(* variant 2 sets other values and an explicit null website_url, variant 0 *)
(* is variant 1 with a founded_year below the schema's range.              *)
(***************************************************************************)
CompanyBody(n, v) ==
    [name |-> n,
     tagline |-> IF v = 2 THEN "t2" ELSE "t1",
     description |-> IF v = 2 THEN "d2" ELSE "d1",
     industry |-> IF v = 2 THEN "SaaS" ELSE "FinTech",
     founded_year |-> IF v = 2 THEN FoundedYearMax
                      ELSE IF v = 1 THEN FoundedYearMin ELSE FoundedYearMin - 1,
     employee_count |-> IF v = 2 THEN 2 ELSE 1,
     headquarters |-> IF v = 2 THEN "h2" ELSE "h1",
     website_url |-> IF v = 2 THEN None ELSE "w1"]

ProductBody(n) ==
    [name |-> n, description |-> "d", target_audience |-> "t",
     key_features |-> "k", pricing_model |-> "Free"]

(***************************************************************************)
(* schemas.py                                                              *)
(***************************************************************************)
\* A schema whose tagline is optional too.
CompanyBaseOptionalTagline(body) ==
    /\ (CompanyRequired \ {"tagline"}) \subseteq DOMAIN body
    /\ body["name"] # ""
    /\ body["description"] # ""
    /\ body["industry"] \in Industries
    /\ body["founded_year"] >= FoundedYearMin
    /\ body["founded_year"] <= FoundedYearMax
    /\ body["employee_count"] > 0
    /\ body["headquarters"] # ""

\* CompanyBase: every field but website_url is required (Field(...)), and
\* the values are within the declared ranges.
CompanyBase(body) ==
    /\ CompanyRequired \subseteq DOMAIN body
    /\ body["name"] # ""
    /\ body["tagline"] # ""
    /\ body["description"] # ""
    /\ body["industry"] \in Industries
    /\ body["founded_year"] >= FoundedYearMin
    /\ body["founded_year"] <= FoundedYearMax
    /\ body["employee_count"] > 0
    /\ body["headquarters"] # ""

\* model_dump() of a validated CompanyCreate/CompanyUpdate: website_url
\* defaults to None when the body leaves it out.
company_model_dump(body) ==
    [f \in CompanyFields |-> IF f \in DOMAIN body THEN body[f] ELSE None]

\* ProductBase: all five fields required.
ProductBase(body) ==
    /\ ProductFields \subseteq DOMAIN body
    /\ body["name"] # ""
    /\ body["description"] # ""
    /\ body["target_audience"] # ""
    /\ body["key_features"] # ""
    /\ body["pricing_model"] \in PricingModels

\* ProductCreate: ProductBase plus company_id > 0.
ProductCreate(body, company_id) == ProductBase(body) /\ company_id > 0

(***************************************************************************)
(* models.py: rows of the two tables.                                      *)
(***************************************************************************)
CompanyRow(id, dump) ==
    [f \in CompanyFields \cup {"id"} |-> IF f = "id" THEN id ELSE dump[f]]

ProductRow(id, company_id, body) ==
    [f \in ProductFields \cup {"id", "company_id"} |->
        IF f = "id" THEN id
        ELSE IF f = "company_id" THEN company_id ELSE body[f]]

SeqMax(s) == IF s = {} THEN 0 ELSE CHOOSE m \in s : \A x \in s : x <= m
SeqMin(s) == CHOOSE m \in s : \A x \in s : m <= x

\* The id the store gives a new row of an Integer primary key column: one
\* more than the largest id in the table.
NextId(rows) == SeqMax({rows[i]["id"] : i \in 1..Len(rows)}) + 1

\* db.query(T).filter(T.id == id).first(): the position of the row, 0 for None.
find_by_id(rows, id) ==
    LET I == {i \in 1..Len(rows) : rows[i]["id"] = id}
    IN  IF I = {} THEN 0 ELSE SeqMin(I)

\* The lookup comparing the names as written, without lower().
find_by_name_exact(rows, name) ==
    LET I == {i \in 1..Len(rows) : rows[i]["name"] = name}
    IN  IF I = {} THEN 0 ELSE SeqMin(I)

\* db.query(Company).filter(func.lower(Company.name) == func.lower(name)).first()
find_by_name_ci(rows, name) ==
    LET I == {i \in 1..Len(rows) : Lower(rows[i]["name"]) = Lower(name)}
    IN  IF I = {} THEN 0 ELSE SeqMin(I)

\* Company.products: the products of one company.
CompanyProducts(prods, company_id) ==
    {i \in 1..Len(prods) : prods[i]["company_id"] = company_id}

RECURSIVE RemoveAt(_, _)
\* The rows of a table after deleting those at the positions in I.
RemoveAt(rows, I) ==
    IF rows = <<>> THEN <<>>
    ELSE LET n == Len(rows)
             front == RemoveAt(SubSeq(rows, 1, n - 1), I)
         IN  IF n \in I THEN front ELSE Append(front, rows[n])

(***************************************************************************)
(* The response of a handler: its status and the fields of its body (the   *)
(* id and name of the record a success returns, the name a conflict        *)
(* reports, the page and counts).  queried tells whether the handler ran a *)
(* query.  The identifiers in the detail text of a 404 are left out.      *)
(***************************************************************************)
NoResp ==
    [op |-> "none", status |-> 0, id |-> 0, name |-> None, queried |-> FALSE,
     page |-> 0, page_size |-> 0, items |-> <<>>, total |-> 0,
     loaded |-> 0, skipped |-> 0, cascaded |-> 0]

Resp(op, status) == [NoResp EXCEPT !.op = op, !.status = status]

\* What a handler leaves behind: the committed tables and the response.
Outcome(cs, ps, resp) == [cs |-> cs, ps |-> ps, resp |-> resp]

\* Company.name is declared unique=True: a commit that would leave two rows
\* with the same name (compared exactly) raises IntegrityError.
unique_name_ok(rows) ==
    \A i, j \in 1..Len(rows) : rows[i]["name"] = rows[j]["name"] => i = j

\* An offset that starts one row early.
OffsetFromSkip(rows, skip) ==
    IF skip > Len(rows) THEN <<>>
    ELSE SubSeq(rows, IF skip = 0 THEN 1 ELSE skip, Len(rows))

\* .offset(skip) and .limit(n) of a query over the rows in table order.
Offset(rows, skip) ==
    IF skip >= Len(rows) THEN <<>> ELSE SubSeq(rows, skip + 1, Len(rows))
Limit(rows, n) == IF Len(rows) <= n THEN rows ELSE SubSeq(rows, 1, n)

(***************************************************************************)
(* main.py: company endpoints.                                             *)
(***************************************************************************)
\* get_companies with the upper limit of page_size off by one.
get_companies_below_limit(cs, ps, page, page_size) ==
    IF page < 1 \/ page_size < 1 \/ page_size >= PageSizeLimit
    THEN Outcome(cs, ps, [Resp("get_companies", 400) EXCEPT
                             !.page = page, !.page_size = page_size])
    ELSE Outcome(cs, ps, [Resp("get_companies", 200) EXCEPT
                             !.page = page, !.page_size = page_size,
                             !.queried = TRUE,
                             !.items = Limit(Offset(cs, (page - 1) * page_size),
                                             page_size),
                             !.total = Len(cs)])

get_companies(cs, ps, page, page_size) ==
    IF page < 1
    THEN Outcome(cs, ps, [Resp("get_companies", 400) EXCEPT
                             !.page = page, !.page_size = page_size])
    ELSE IF page_size < 1 \/ page_size > PageSizeLimit
    THEN Outcome(cs, ps, [Resp("get_companies", 400) EXCEPT
                             !.page = page, !.page_size = page_size])
    ELSE LET total == Len(cs)
             skip == (page - 1) * page_size
             items == Limit(Offset(cs, skip), page_size)
         IN  Outcome(cs, ps, [Resp("get_companies", 200) EXCEPT
                                 !.page = page, !.page_size = page_size,
                                 !.queried = TRUE, !.items = items,
                                 !.total = total])

get_company(cs, ps, company_id) ==
    IF find_by_id(cs, company_id) = 0
    THEN Outcome(cs, ps, [Resp("get_company", 404) EXCEPT !.queried = TRUE])
    ELSE Outcome(cs, ps, [Resp("get_company", 200) EXCEPT
                             !.id = company_id, !.queried = TRUE])

create_company(cs, ps, body) ==
    IF ~CompanyBase(body)
    THEN Outcome(cs, ps, Resp("create_company", 422))
    ELSE IF find_by_name_ci(cs, body["name"]) # 0
    THEN Outcome(cs, ps, [Resp("create_company", 400) EXCEPT
                             !.name = body["name"], !.queried = TRUE])
    ELSE LET id == NextId(cs)
             rows == Append(cs, CompanyRow(id, company_model_dump(body)))
         IN  IF unique_name_ok(rows)
             THEN Outcome(rows, ps, [Resp("create_company", 201) EXCEPT
                                        !.name = body["name"], !.id = id,
                                        !.queried = TRUE])
             ELSE Outcome(cs, ps, [Resp("create_company", 500) EXCEPT
                                      !.name = body["name"], !.queried = TRUE])

update_company(cs, ps, company_id, body) ==
    LET i == find_by_id(cs, company_id) IN
    IF ~CompanyBase(body)
    THEN Outcome(cs, ps, Resp("update_company", 422))
    ELSE IF i = 0
    THEN Outcome(cs, ps, [Resp("update_company", 404) EXCEPT !.queried = TRUE])
    ELSE IF /\ body["name"] # cs[i]["name"]
            /\ find_by_name_ci(cs, body["name"]) # 0
    THEN Outcome(cs, ps, [Resp("update_company", 400) EXCEPT
                             !.name = body["name"], !.id = company_id,
                             !.queried = TRUE])
    ELSE LET rows == [cs EXCEPT
                         ![i] = CompanyRow(cs[i]["id"], company_model_dump(body))]
         IN  IF unique_name_ok(rows)
             THEN Outcome(rows, ps, [Resp("update_company", 200) EXCEPT
                                        !.name = body["name"], !.id = company_id,
                                        !.queried = TRUE])
             ELSE Outcome(cs, ps, [Resp("update_company", 500) EXCEPT
                                      !.name = body["name"], !.id = company_id,
                                      !.queried = TRUE])

\* A relationship declared without the cascade: the products stay.
cascade_none(ps, company_id) == ps

\* db.delete(db_company) with cascade="all, delete-orphan" on Company.products:
\* the company's products are deleted with it, in the same commit.
cascade(ps, company_id) == RemoveAt(ps, CompanyProducts(ps, company_id))

delete_company(cs, ps, company_id) ==
    LET i == find_by_id(cs, company_id) IN
    IF i = 0
    THEN Outcome(cs, ps, [Resp("delete_company", 404) EXCEPT !.queried = TRUE])
    ELSE Outcome(RemoveAt(cs, {i}), cascade(ps, company_id),
                 [Resp("delete_company", 204) EXCEPT
                     !.id = company_id, !.queried = TRUE,
                     !.cascaded = Cardinality(CompanyProducts(ps, company_id))])

(***************************************************************************)
(* main.py: product endpoints.                                             *)
(***************************************************************************)
get_products(cs, ps) ==
    Outcome(cs, ps, [Resp("get_products", 200) EXCEPT
                        !.queried = TRUE, !.items = ps])

get_product(cs, ps, product_id) ==
    IF find_by_id(ps, product_id) = 0
    THEN Outcome(cs, ps, [Resp("get_product", 404) EXCEPT !.queried = TRUE])
    ELSE Outcome(cs, ps, [Resp("get_product", 200) EXCEPT
                             !.id = product_id, !.queried = TRUE])

\* create_product without the lookup of the company.
create_product_unchecked(cs, ps, body, company_id) ==
    IF ~ProductCreate(body, company_id)
    THEN Outcome(cs, ps, Resp("create_product", 422))
    ELSE Outcome(cs, Append(ps, ProductRow(NextId(ps), company_id, body)),
                 [Resp("create_product", 201) EXCEPT
                     !.id = company_id, !.queried = TRUE])

create_product(cs, ps, body, company_id) ==
    IF ~ProductCreate(body, company_id)
    THEN Outcome(cs, ps, Resp("create_product", 422))
    ELSE IF find_by_id(cs, company_id) = 0
    THEN Outcome(cs, ps, [Resp("create_product", 400) EXCEPT !.queried = TRUE])
    ELSE Outcome(cs, Append(ps, ProductRow(NextId(ps), company_id, body)),
                 [Resp("create_product", 201) EXCEPT
                     !.id = company_id, !.queried = TRUE])

update_product(cs, ps, product_id, body) ==
    LET i == find_by_id(ps, product_id) IN
    IF ~ProductBase(body)
    THEN Outcome(cs, ps, Resp("update_product", 422))
    ELSE IF i = 0
    THEN Outcome(cs, ps, [Resp("update_product", 404) EXCEPT !.queried = TRUE])
    ELSE Outcome(cs,
                 [ps EXCEPT ![i] = ProductRow(ps[i]["id"], ps[i]["company_id"], body)],
                 [Resp("update_product", 200) EXCEPT
                     !.id = product_id, !.queried = TRUE])

delete_product(cs, ps, product_id) ==
    LET i == find_by_id(ps, product_id) IN
    IF i = 0
    THEN Outcome(cs, ps, [Resp("delete_product", 404) EXCEPT !.queried = TRUE])
    ELSE Outcome(cs, RemoveAt(ps, {i}),
                 [Resp("delete_product", 204) EXCEPT
                     !.id = product_id, !.queried = TRUE])

(***************************************************************************)
(* main.py: POST /load-data.                                               *)
(*                                                                         *)
(* The seed document startup_data.json is one of:                          *)
(*   kind "missing"       no such file (open raises FileNotFoundError)     *)
(*   kind "invalid_json"  json.load raises JSONDecodeError                 *)
(*   kind "array"         valid JSON whose top level is an array           *)
(*   kind "no_key"        an object without the key "companies"            *)
(*   kind "number"        an object whose "companies" is a number          *)
(*   kind "object"        an object whose "companies" is an array, given   *)
(*                        as the sequence of its elements                  *)
(* An element of the array is one of:                                      *)
(*   kind "ok"            a company object with a "products" array         *)
(*   kind "no_name"       a company object without the key "name"          *)
(*   kind "extra_key"     a company object with a key Company has no       *)
(*                        column for                                       *)
(*   kind "string"        a JSON string instead of an object               *)
(***************************************************************************)
DocRecord(kind, n, prods) == [kind |-> kind, name |-> n, products |-> prods]

\* The columns Company(**company_data) sets from a well-formed record
\* (the generator writes every field).
RecordFields(r) == company_model_dump(CompanyBody(r.name, 1))

RECURSIVE add_products(_, _, _)
\* Lines 84-86: one Product row per nested record, in document order.
add_products(ps, company_id, names) ==
    IF names = <<>> THEN ps
    ELSE add_products(
             Append(ps, ProductRow(NextId(ps), company_id, ProductBody(Head(names)))),
             company_id, Tail(names))

\* A commit in the place of the flush: the pending rows become committed.
flush_commits(committed, pending) == pending

\* db.flush() (line 81) sends the pending rows to the database inside the
\* open transaction: the committed tables stay as they are.
flush(committed, pending) == committed

RECURSIVE load_loop_committed_only(_, _, _, _, _, _)
\* The loop with the lookup seeing the committed rows only, not the rows the
\* session has pending.
load_loop_committed_only(recs, db, cs, ps, loaded, skipped) ==
    IF recs = <<>>
    THEN [ok |-> TRUE, db |-> db, cs |-> cs, ps |-> ps,
          loaded |-> loaded, skipped |-> skipped]
    ELSE LET r == Head(recs) IN
         IF r.kind \in {"string", "no_name"}
         THEN [ok |-> FALSE, db |-> db, cs |-> cs, ps |-> ps,
               loaded |-> loaded, skipped |-> skipped]
         ELSE IF find_by_name_ci(db.cs, r.name) # 0
         THEN load_loop_committed_only(Tail(recs), db, cs, ps, loaded, skipped + 1)
         ELSE IF r.kind = "extra_key"
         THEN [ok |-> FALSE, db |-> db, cs |-> cs, ps |-> ps,
               loaded |-> loaded, skipped |-> skipped]
         ELSE LET id == NextId(cs)
              IN  load_loop_committed_only(
                      Tail(recs), db,
                      Append(cs, CompanyRow(id, RecordFields(r))),
                      add_products(ps, id, r.products),
                      loaded + 1, skipped)

RECURSIVE load_loop(_, _, _, _, _, _)
\* Lines 65-88: the loop over companies_data within the session.  db is the
\* committed content of the tables, cs and ps are the rows the session sees
\* (committed and pending).  ok is FALSE when an iteration raises.
load_loop(recs, db, cs, ps, loaded, skipped) ==
    IF recs = <<>>
    THEN [ok |-> TRUE, db |-> db, cs |-> cs, ps |-> ps,
          loaded |-> loaded, skipped |-> skipped]
    ELSE LET r == Head(recs) IN
         IF r.kind \in {"string", "no_name"}
         THEN [ok |-> FALSE, db |-> db, cs |-> cs, ps |-> ps,
               loaded |-> loaded, skipped |-> skipped]
         ELSE IF find_by_name_ci(cs, r.name) # 0
         THEN load_loop(Tail(recs), db, cs, ps, loaded, skipped + 1)
         ELSE IF r.kind = "extra_key"
         THEN [ok |-> FALSE, db |-> db, cs |-> cs, ps |-> ps,
               loaded |-> loaded, skipped |-> skipped]
         ELSE LET id == NextId(cs)
                  cs1 == Append(cs, CompanyRow(id, RecordFields(r)))
                  db1 == flush(db, [cs |-> cs1, ps |-> ps])
              IN  load_loop(Tail(recs), db1, cs1,
                            add_products(ps, id, r.products),
                            loaded + 1, skipped)

load_data_from_json(cs, ps, doc) ==
    IF doc.kind = "missing"
    THEN Outcome(cs, ps, Resp("load_data_from_json", 404))
    ELSE IF doc.kind = "invalid_json"
    THEN Outcome(cs, ps, Resp("load_data_from_json", 400))
    ELSE IF doc.kind \in {"array", "number"}
    THEN \* data.get / len(companies_data) raise: an unhandled exception
         Outcome(cs, ps, Resp("load_data_from_json", 500))
    ELSE LET companies_data == IF doc.kind = "no_key" THEN <<>> ELSE doc.companies
             run == load_loop(companies_data, [cs |-> cs, ps |-> ps], cs, ps, 0, 0)
         IN  IF run.ok /\ unique_name_ok(run.cs)
             THEN Outcome(run.cs, run.ps,
                          [Resp("load_data_from_json", 200) EXCEPT
                              !.queried = TRUE, !.loaded = run.loaded,
                              !.skipped = run.skipped,
                              !.total = Len(companies_data)])
             ELSE \* the exception leaves the handler before db.commit() (line
                  \* 90): the session ends with its pending rows discarded
                  Outcome(run.db.cs, run.db.ps,
                          [Resp("load_data_from_json", 500) EXCEPT
                              !.queried = TRUE, !.loaded = run.loaded,
                              !.skipped = run.skipped])

(***************************************************************************)
(* A request: one step that applies a handler's outcome.  The ids the      *)
(* store hands out are capped to keep the model finite.                    *)
(***************************************************************************)
WithinBounds(out, maxCompanyId, maxProductId) ==
    /\ \A i \in 1..Len(out.cs) : out.cs[i]["id"] <= maxCompanyId
    /\ \A i \in 1..Len(out.ps) : out.ps[i]["id"] <= maxProductId

RequestUpTo(out, maxCompanyId, maxProductId) ==
    /\ WithinBounds(out, maxCompanyId, maxProductId)
    /\ companies' = out.cs
    /\ products' = out.ps
    /\ last' = out.resp
    /\ UNCHANGED <<sessions, max_retries, attempt, rpc, history>>

Request(out) == RequestUpTo(out, MaxCompanyId, MaxProductId)

\* The worker threads that run the handlers (the handlers are plain def
\* functions, run in the thread pool): two requests at a time.
Workers == {1, 2}

\* What a worker has in hand: pc is "idle" (no request), "checked" (the
\* lookup of the name found nothing, the insert is still to be committed),
\* "skipped" (a load whose lookup found the name) or "done" (the response
\* is written, with its status); name and products are the request's.
Session(pc, op, name, prods, status) ==
    [pc |-> pc, op |-> op, name |-> name, products |-> prods, status |-> status]

IdleSession == Session("idle", "none", None, <<>>, 0)

InitStore ==
    /\ companies = <<>>
    /\ products = <<>>
    /\ last = NoResp
    /\ sessions = [w \in Workers |-> IdleSession]
    /\ max_retries = 3
    /\ attempt = 0
    /\ rpc = "idle"
    /\ history = <<>>

RECURSIVE SeqsUpTo(_, _)
\* The sequences over S of length at most n.
SeqsUpTo(S, n) ==
    IF n = 0 THEN {<<>>}
    ELSE LET shorter == SeqsUpTo(S, n - 1)
         IN  shorter \cup {Append(q, x) : q \in {t \in shorter : Len(t) = n - 1},
                                          x \in S}

(***************************************************************************)
(* Spec: every endpoint, with requests from small sets.                    *)
(***************************************************************************)
CompanyIds == 1..(MaxCompanyId + 1)
ProductIds == 1..(MaxProductId + 1)

Bodies == {CompanyBody(n, 1) : n \in Names \ {"c"}}

DocRecords ==
    {DocRecord("ok", "A", <<>>), DocRecord("ok", "b", <<"p">>),
     DocRecord("no_name", None, <<>>)}
Documents ==
    {[kind |-> k] : k \in {"missing", "invalid_json", "array"}}
      \cup {[kind |-> "object", companies |-> recs] :
               recs \in SeqsUpTo(DocRecords, MaxDocLen)}

Next ==
    \/ \E body \in Bodies : Request(create_company(companies, products, body))
    \/ \E id \in CompanyIds, body \in Bodies :
          Request(update_company(companies, products, id, body))
    \/ \E id \in CompanyIds : Request(delete_company(companies, products, id))
    \/ \E id \in CompanyIds : Request(get_company(companies, products, id))
    \/ \E id \in 0..(MaxCompanyId + 1) :
          Request(create_product(companies, products, ProductBody("p"), id))
    \/ \E id \in ProductIds :
          Request(update_product(companies, products, id, ProductBody("q")))
    \/ \E id \in ProductIds : Request(delete_product(companies, products, id))
    \/ \E id \in ProductIds : Request(get_product(companies, products, id))
    \/ Request(get_products(companies, products))
    \/ \E doc \in Documents : Request(load_data_from_json(companies, products, doc))

Spec == InitStore /\ [][Next]_vars

(***************************************************************************)
(* Properties of Spec.                                                     *)
(***************************************************************************)
\* Two names equal under case-insensitive comparison.
SameNameCI(n, m) == Lower(n) = Lower(m)

\* The rows of a table that are not those of the company (or the products of
\* the company) with the given id, in table order.
CompaniesBut(rows, id) == SelectSeq(rows, LAMBDA c : c["id"] # id)
ProductsNotOf(rows, id) == SelectSeq(rows, LAMBDA p : p["company_id"] # id)

\* C1: no two stored companies have names equal under case-insensitive
\* comparison, and a valid create_company, or update_company of a stored
\* company, whose name equals another stored company's name up to letter case
\* is answered 400 and leaves both tables as they are.
C1_NameUniqueCI ==
    /\ \A i, j \in 1..Len(companies) :
          SameNameCI(companies[i]["name"], companies[j]["name"]) => i = j
    /\ \A body \in Bodies :
          (\E i \in 1..Len(companies) : SameNameCI(companies[i]["name"], body["name"]))
          => LET out == create_company(companies, products, body)
             IN  /\ out.resp.status = 400
                 /\ out.cs = companies
                 /\ out.ps = products
    /\ \A body \in Bodies, i \in 1..Len(companies) :
          (\E j \in 1..Len(companies) :
               j # i /\ SameNameCI(companies[j]["name"], body["name"]))
          => LET out == update_company(companies, products, companies[i]["id"], body)
             IN  /\ out.resp.status = 400
                 /\ out.cs = companies
                 /\ out.ps = products

\* A create_company was refused for a name that differs from a stored
\* company's name in letter case only.
C1_Witness ==
    /\ last.op = "create_company"
    /\ last.status = 400
    /\ \E i \in 1..Len(companies) :
          /\ companies[i]["name"] # last.name
          /\ SameNameCI(companies[i]["name"], last.name)

\* C2: delete_company of a stored company with N products answers 204 and
\* removes that company and exactly its N products, every other row staying
\* in place; get_company of the id and get_product of each removed product
\* then answer 404.
C2_DeleteCascades ==
    \A i \in 1..Len(companies) :
       LET id == companies[i]["id"]
           owned == {k \in 1..Len(products) : products[k]["company_id"] = id}
           out == delete_company(companies, products, id)
       IN  /\ out.resp.status = 204
           /\ out.cs = CompaniesBut(companies, id)
           /\ Len(out.cs) = Len(companies) - 1
           /\ out.ps = ProductsNotOf(products, id)
           /\ Len(out.ps) = Len(products) - Cardinality(owned)
           /\ get_company(out.cs, out.ps, id).resp.status = 404
           /\ \A k \in owned :
                 get_product(out.cs, out.ps, products[k]["id"]).resp.status = 404

\* A company with two products was deleted, and its products with it.
C2_Witness ==
    /\ last.op = "delete_company"
    /\ last.status = 204
    /\ last.cascaded = 2
    /\ products = <<>>

\* C3: every stored product's company_id is the id of a stored company, and
\* create_product naming a company_id that no stored company has is answered
\* 400 and adds no row.
C3_ProductsHaveCompany ==
    /\ \A k \in 1..Len(products) :
          \E i \in 1..Len(companies) :
             companies[i]["id"] = products[k]["company_id"]
    /\ \A company_id \in CompanyIds, n \in {"p", "q"} :
          (\A i \in 1..Len(companies) : companies[i]["id"] # company_id)
          => LET out == create_product(companies, products, ProductBody(n), company_id)
             IN  /\ out.resp.status = 400
                 /\ out.ps = products
                 /\ out.cs = companies

\* A create_product naming no stored company was refused while products of
\* stored companies exist.
C3_Witness ==
    /\ last.op = "create_product"
    /\ last.status = 400
    /\ products # <<>>

(***************************************************************************)
(* SpecPage: the company list under create, delete and paging requests.    *)
(***************************************************************************)
Pages == 0..MaxPage
PageSizes == (0..MaxListedId) \cup {PageSizeLimit, PageSizeLimit + 1}
ListedBodies == {CompanyBody(n, 1) : n \in Names}

PageRequest(out) == RequestUpTo(out, MaxListedId, 0)

NextPage ==
    \/ \E body \in ListedBodies :
          PageRequest(create_company(companies, products, body))
    \/ \E id \in 1..MaxListedId :
          PageRequest(delete_company(companies, products, id))
    \/ \E page \in Pages, page_size \in PageSizes :
          PageRequest(get_companies(companies, products, page, page_size))

SpecPage == InitStore /\ [][NextPage]_vars

Minimum(a, b) == IF a <= b THEN a ELSE b

\* C4: for page >= 1 and page_size in 1..100, get_companies answers 200 with
\* total = the number of stored companies and with the companies at the
\* insertion-order positions (page-1)*page_size+1 .. min(page*page_size, total),
\* at most page_size of them; none, and no error, when (page-1)*page_size >= total.
C4_Pagination ==
    \A page \in Pages, page_size \in PageSizes :
       (page >= 1 /\ page_size >= 1 /\ page_size <= 100)
       => LET out == get_companies(companies, products, page, page_size)
              total == Len(companies)
              first == (page - 1) * page_size + 1
              upto == Minimum(page * page_size, total)
              items == out.resp.items
          IN  /\ out.resp.status = 200
              /\ out.resp.total = total
              /\ out.cs = companies
              /\ Len(items) <= page_size
              /\ Len(items) = (IF upto < first THEN 0 ELSE upto - first + 1)
              /\ \A k \in 1..Len(items) : items[k] = companies[first + k - 1]
              /\ ((page - 1) * page_size >= total => items = <<>>)

\* The second page of two of three companies was listed: the third company.
C4_Witness ==
    /\ last.op = "get_companies"
    /\ last.status = 200
    /\ last.page = 2
    /\ last.page_size = 2
    /\ last.total = 3
    /\ Len(last.items) = 1
    /\ last.items[1] = companies[3]

\* C5: get_companies with page < 1, page_size < 1 or page_size > 100 is
\* answered 400 without a query of the store; every page >= 1 with page_size
\* in 1..100 is accepted.
C5_PageBounds ==
    \A page \in Pages, page_size \in PageSizes :
       LET out == get_companies(companies, products, page, page_size)
       IN  IF page < 1 \/ page_size < 1 \/ page_size > 100
           THEN /\ out.resp.status = 400
                /\ ~out.resp.queried
                /\ out.resp.items = <<>>
           ELSE /\ out.resp.status = 200
                /\ out.resp.queried

\* A page_size of 101 was refused with companies stored.
C5_Witness ==
    /\ last.op = "get_companies"
    /\ last.status = 400
    /\ last.page = 1
    /\ last.page_size = 101
    /\ ~last.queried
    /\ companies # <<>>

(***************************************************************************)
(* SpecUpdate: the companies under create, update and delete requests      *)
(* whose bodies may leave a key out or carry a value out of range.         *)
(***************************************************************************)
FullBodies ==
    {CompanyBody(n, v) : n \in Names \ {"c"}, v \in {1, 2}}
       \cup {CompanyBody("b", 0)}
PartialBodies ==
    {Restrict(CompanyBody(n, 1), CompanyFields \ {f}) :
        n \in {"a", "b"}, f \in CompanyFields}
UpdateBodies == FullBodies \cup PartialBodies

NextUpdate ==
    \/ \E body \in UpdateBodies :
          Request(create_company(companies, products, body))
    \/ \E id \in CompanyIds, body \in UpdateBodies :
          Request(update_company(companies, products, id, body))
    \/ \E id \in CompanyIds : Request(delete_company(companies, products, id))

SpecUpdate == InitStore /\ [][NextUpdate]_vars

\* Whether a stored company has a value for a field: the required columns are
\* NOT NULL, website_url is nullable.
FieldSet(row, f) == IF f = "website_url" THEN row[f] # None ELSE TRUE

\* C9 as claimed: an update_company whose body leaves out any field the stored
\* company has a value for fails validation and leaves the record unchanged.
C9_AnyOmittedFieldFails ==
    \A i \in 1..Len(companies), body \in UpdateBodies :
       (\E f \in CompanyFields \ DOMAIN body : FieldSet(companies[i], f))
       => LET out == update_company(companies, products, companies[i]["id"], body)
          IN  /\ out.resp.status = 422
              /\ out.cs = companies

\* C9, amended: an update_company whose body leaves out a required field
\* (every field but website_url) fails validation and leaves the tables
\* unchanged; a body leaving out only website_url is not refused for that, and
\* when the update succeeds the stored website_url is None (the old value is
\* dropped, never kept) and every other field is the body's.
C9_RequiredFieldsOnly ==
    \A i \in 1..Len(companies), body \in UpdateBodies :
       LET out == update_company(companies, products, companies[i]["id"], body)
           omitted == CompanyFields \ DOMAIN body
       IN  /\ (omitted \cap CompanyRequired # {}
               => /\ out.resp.status = 422
                  /\ out.cs = companies
                  /\ out.ps = products)
           /\ (omitted = {"website_url"}
               => /\ out.resp.status \in {200, 400}
                  /\ (out.resp.status = 400 => out.cs = companies)
                  /\ (out.resp.status = 200
                      => /\ out.cs[i]["website_url"] = None
                         /\ out.cs[i]["id"] = companies[i]["id"]
                         /\ \A f \in DOMAIN body : out.cs[i][f] = body[f]
                         /\ \A j \in 1..Len(companies) :
                               j # i => out.cs[j] = companies[j]))

\* An update whose body left website_url out succeeded: the row carries the
\* body's values and no website_url.
C9_Witness ==
    /\ last.op = "update_company"
    /\ last.status = 200
    /\ \E i \in 1..Len(companies) :
          /\ companies[i]["id"] = last.id
          /\ companies[i]["tagline"] = "t1"
          /\ companies[i]["website_url"] = None

\* C12: update_company on an existing company answers 400 only when a
\* different stored company has a name equal, letter case aside, to the new
\* name; and an update whose new name is the company's own name, exactly or
\* in another letter case, answers 200 and stores the body's values.
C12_ConflictOnlyWithAnother ==
    \A i \in 1..Len(companies), body \in FullBodies :
       LET out == update_company(companies, products, companies[i]["id"], body)
           another == \E j \in 1..Len(companies) :
                         /\ j # i
                         /\ SameNameCI(companies[j]["name"], body["name"])
       IN  CompanyBase(body)
           => /\ (out.resp.status = 400 => another)
              /\ (SameNameCI(companies[i]["name"], body["name"])
                  => /\ out.resp.status = 200
                     /\ out.cs[i] = CompanyRow(companies[i]["id"],
                                               company_model_dump(body)))

(***************************************************************************)
(* SpecLoad: bulk loads of seed documents of every kind, with companies    *)
(* and products deleted in between.                                        *)
(***************************************************************************)
LoadRecords ==
    {DocRecord("ok", n, prods) : n \in Names \ {"c"}, prods \in {<<>>, <<"p">>}}
       \cup {DocRecord("no_name", None, <<>>), DocRecord("extra_key", "b", <<>>),
             DocRecord("string", None, <<>>)}
LoadDocuments ==
    {[kind |-> k] : k \in {"missing", "invalid_json", "array", "no_key", "number"}}
       \cup {[kind |-> "object", companies |-> recs] :
                recs \in SeqsUpTo(LoadRecords, MaxDocLen)}

NextLoad ==
    \/ \E doc \in LoadDocuments :
          Request(load_data_from_json(companies, products, doc))
    \/ \E id \in CompanyIds : Request(delete_company(companies, products, id))
    \/ \E id \in ProductIds : Request(delete_product(companies, products, id))

SpecLoad == InitStore /\ [][NextLoad]_vars

\* The company records of a document.
RecordsOf(doc) == IF doc.kind = "object" THEN doc.companies ELSE <<>>

\* Record i of recs names a company already stored in cs, or named by an
\* earlier record, up to letter case.
IsDuplicate(recs, cs, i) ==
    \/ \E k \in 1..Len(cs) : SameNameCI(cs[k]["name"], recs[i].name)
    \/ \E j \in 1..(i - 1) : SameNameCI(recs[j].name, recs[i].name)

RECURSIVE SumLen(_, _)
SumLen(recs, I) ==
    IF I = {} THEN 0
    ELSE LET i == CHOOSE x \in I : TRUE
         IN  Len(recs[i].products) + SumLen(recs, I \ {i})

\* C6: a load that answers 200 reports total = the number of company records
\* and loaded + skipped = total; the skipped records are those naming, up to
\* letter case, a company stored before the load or an earlier record; the
\* rows stored before the load are untouched; every other record adds one
\* company, in document order, and its nested products in document order
\* under that company's id.
C6_LoadCounts ==
    \A doc \in LoadDocuments :
       LET out == load_data_from_json(companies, products, doc)
           recs == RecordsOf(doc)
           dup == {i \in 1..Len(recs) : IsDuplicate(recs, companies, i)}
           kept == (1..Len(recs)) \ dup
           nc == Len(companies)
           np == Len(products)
           \* the position among the new companies of kept record i
           rank(i) == Cardinality({j \in kept : j <= i})
           newps == SubSeq(out.ps, np + 1, Len(out.ps))
       IN  out.resp.status = 200
           => /\ out.resp.total = Len(recs)
              /\ out.resp.loaded + out.resp.skipped = out.resp.total
              /\ out.resp.skipped = Cardinality(dup)
              /\ out.resp.loaded = Cardinality(kept)
              /\ Len(out.cs) = nc + Cardinality(kept)
              /\ SubSeq(out.cs, 1, nc) = companies
              /\ SubSeq(out.ps, 1, np) = products
              /\ \A i \in kept : out.cs[nc + rank(i)]["name"] = recs[i].name
              /\ Len(newps) = SumLen(recs, kept)
              /\ \A i \in kept :
                    LET id == out.cs[nc + rank(i)]["id"]
                        mine == SelectSeq(newps, LAMBDA p : p["company_id"] = id)
                    IN  /\ \A k \in 1..nc : companies[k]["id"] # id
                        /\ Len(mine) = Len(recs[i].products)
                        /\ \A k \in 1..Len(mine) :
                              mine[k]["name"] = recs[i].products[k]
              /\ \A a, b \in 1..Len(newps) :
                    a < b =>
                      find_by_id(out.cs, newps[a]["company_id"])
                        <= find_by_id(out.cs, newps[b]["company_id"])

\* A load of two records, one naming a stored company, loaded the other one
\* with its product.
C6_Witness ==
    /\ last.op = "load_data_from_json"
    /\ last.status = 200
    /\ last.loaded = 1
    /\ last.skipped = 1
    /\ last.total = 2
    /\ Len(companies) = 2
    /\ \E k \in 1..Len(products) :
          products[k]["company_id"] = companies[2]["id"]

\* C7 as claimed: when a load raises on a later record, the companies inserted
\* from the earlier records are committed.
C7_EarlierRecordsCommitted ==
    \A doc \in LoadDocuments :
       LET out == load_data_from_json(companies, products, doc)
       IN  (doc.kind = "object" /\ out.resp.status = 500)
           => Len(out.cs) = Len(companies) + out.resp.loaded

\* C7, amended: when a load raises on a company record, nothing of the batch
\* is committed: both tables are what they were before the load, also when
\* earlier records of the batch had been inserted in the session.
C7_FailedLoadCommitsNothing ==
    \A doc \in LoadDocuments :
       LET out == load_data_from_json(companies, products, doc)
       IN  (doc.kind = "object" /\ out.resp.status # 200)
           => /\ out.resp.status = 500
              /\ out.cs = companies
              /\ out.ps = products

\* A load raised after it had inserted a company from an earlier record.
C7_Witness ==
    /\ last.op = "load_data_from_json"
    /\ last.status = 500
    /\ last.loaded >= 1

\* A document that is not an object whose "companies" is an array of objects.
Malformed(doc) ==
    \/ doc.kind \in {"invalid_json", "array", "no_key", "number"}
    \/ /\ doc.kind = "object"
       /\ \E i \in 1..Len(doc.companies) : doc.companies[i].kind = "string"

\* C8: a missing document is answered 404 and a malformed one 400, and in
\* both cases the tables are left unchanged.
C8_MissingOrMalformed ==
    \A doc \in LoadDocuments :
       LET out == load_data_from_json(companies, products, doc)
       IN  /\ (doc.kind = "missing" => out.resp.status = 404)
           /\ (Malformed(doc) => out.resp.status = 400)
           /\ (doc.kind = "missing" \/ Malformed(doc)
               => out.cs = companies /\ out.ps = products)

(***************************************************************************)
(* SpecConc: create_company and load_data_from_json requests handled at    *)
(* the same time by two workers.  A worker's lookup of the name reads the  *)
(* committed rows; its insert is committed in a later step, against the    *)
(* rows committed by then, under the unique constraint of Company.name.    *)
(* A load is of a document of one company record.                          *)
(***************************************************************************)
\* Lines 155-162 (create_company) and 67-73 (load_data_from_json): the lookup
\* of a company of that name, letter case aside.  TRUE when none is found.
name_check(cs, name) == find_by_name_ci(cs, name) = 0

\* Lines 164-166: db.add, db.commit of create_company.  The INSERT is refused
\* by the unique constraint (IntegrityError, not caught: 500).
create_company_commit(cs, ps, body) ==
    LET id == NextId(cs)
        rows == Append(cs, CompanyRow(id, company_model_dump(body)))
    IN  IF unique_name_ok(rows)
        THEN Outcome(rows, ps, Resp("create_company", 201))
        ELSE Outcome(cs, ps, Resp("create_company", 500))

\* Lines 79-90: db.add, db.flush, the products, db.commit of a load of one
\* record.
load_commit(cs, ps, r) ==
    LET id == NextId(cs)
        rows == Append(cs, CompanyRow(id, RecordFields(r)))
    IN  IF unique_name_ok(rows)
        THEN Outcome(rows, add_products(ps, id, r.products),
                     Resp("load_data_from_json", 200))
        ELSE Outcome(cs, ps, Resp("load_data_from_json", 500))

ConcNames == {"a", "A", "b"}
ConcRecords == {DocRecord("ok", n, prods) : n \in ConcNames, prods \in {<<>>, <<"p">>}}

\* A worker takes a create_company request and runs the lookup: 400 when a
\* company of that name is committed.
CheckCreate(w, name) ==
    /\ sessions[w].pc = "idle"
    /\ CompanyBase(CompanyBody(name, 1))
    /\ sessions' = [sessions EXCEPT ![w] =
          IF name_check(companies, name)
          THEN Session("checked", "create_company", name, <<>>, 0)
          ELSE Session("done", "create_company", name, <<>>, 400)]
    /\ UNCHANGED <<companies, products, last, max_retries, attempt, rpc, history>>

\* A worker takes a load request and runs the lookup for the record: the
\* record is skipped (200, loaded 0) when a company of that name is committed.
CheckLoad(w, r) ==
    /\ sessions[w].pc = "idle"
    /\ sessions' = [sessions EXCEPT ![w] =
          IF name_check(companies, r.name)
          THEN Session("checked", "load_data_from_json", r.name, r.products, 0)
          ELSE Session("skipped", "load_data_from_json", r.name, r.products, 200)]
    /\ UNCHANGED <<companies, products, last, max_retries, attempt, rpc, history>>

\* A worker whose lookup found nothing commits its insert.
Commit(w) ==
    /\ sessions[w].pc = "checked"
    /\ LET ses == sessions[w]
           out == IF ses.op = "create_company"
                  THEN create_company_commit(companies, products,
                                             CompanyBody(ses.name, 1))
                  ELSE load_commit(companies, products,
                                   DocRecord("ok", ses.name, ses.products))
       IN  /\ WithinBounds(out, MaxCompanyId, MaxProductId)
           /\ companies' = out.cs
           /\ products' = out.ps
           /\ sessions' = [sessions EXCEPT ![w] =
                 Session("done", ses.op, ses.name, ses.products, out.resp.status)]
    /\ UNCHANGED <<last, max_retries, attempt, rpc, history>>

\* The response is sent: the worker is free for the next request.
Finish(w) ==
    /\ sessions[w].pc \in {"done", "skipped"}
    /\ sessions' = [sessions EXCEPT ![w] = IdleSession]
    /\ UNCHANGED <<companies, products, last, max_retries, attempt, rpc, history>>

NextConc ==
    \/ \E w \in Workers, name \in ConcNames : CheckCreate(w, name)
    \/ \E w \in Workers, r \in ConcRecords : CheckLoad(w, r)
    \/ \E w \in Workers : Commit(w)
    \/ \E w \in Workers : Finish(w)

SpecConc == InitStore /\ [][NextConc]_vars

\* A worker's insert is committed.
Inserted(w) ==
    /\ sessions[w].pc = "done"
    /\ sessions[w].status \in {200, 201}

\* C11: of two create_company or load_data_from_json requests handled at the
\* same time with names equal letter case aside, at most one insert is
\* committed, the other ending in the conflict raised by the unique
\* constraint on name; and no state holds two companies whose names are
\* equal letter case aside.
C11_RaceKeepsNamesUnique ==
    /\ \A i, j \in 1..Len(companies) :
          SameNameCI(companies[i]["name"], companies[j]["name"]) => i = j
    /\ \A w, v \in Workers :
          (w # v /\ Inserted(w)
               /\ SameNameCI(sessions[w].name, sessions[v].name))
          => ~Inserted(v)

(***************************************************************************)
(* generate_data.py: retry_with_backoff(func, max_retries).                *)
(*                                                                         *)
(* rpc is where the call stands: "loop" at the test of the while loop,     *)
(* "returned" after return func(), "raised" after raise e, "exhausted"     *)
(* when the loop ends without a call left.  history holds, for each call   *)
(* of func that failed, how the failure was classified, the value of       *)
(* attempt at the failure and the seconds slept after it (wait; -1 when    *)
(* the error was raised instead).                                          *)
(***************************************************************************)
DefaultMaxRetries == 3
RateLimitWait == 30

\* An error message is the sequence of its words.
ErrorMessages ==
    {<<"429", "Too", "Many", "Requests">>, <<"Quota", "exceeded">>,
     <<"Rate", "Limit", "reached">>, <<"Resource", "Exhausted">>,
     <<"Connection", "reset">>, <<"Invalid", "JSON", "rate">>}

\* str.lower() on the words of the messages.
LowerWord(w) ==
    CASE w = "Quota" -> "quota"
      [] w = "Rate" -> "rate"
      [] w = "Limit" -> "limit"
      [] w = "Resource" -> "resource"
      [] w = "Exhausted" -> "exhausted"
      [] w = "Too" -> "too"
      [] w = "Many" -> "many"
      [] w = "Requests" -> "requests"
      [] w = "Connection" -> "connection"
      [] w = "Invalid" -> "invalid"
      [] w = "JSON" -> "json"
      [] OTHER -> w
LowerMessage(msg) == [i \in 1..Len(msg) |-> LowerWord(msg[i])]

\* phrase in msg: the words of phrase occur in msg one after another.
Contains(msg, phrase) ==
    \E i \in 1..Len(msg) :
       /\ i + Len(phrase) - 1 <= Len(msg)
       /\ \A k \in 1..Len(phrase) : msg[i + k - 1] = phrase[k]

\* Lines 49-54.
is_rate_limit(error_message) ==
    \/ Contains(error_message, <<"429">>)
    \/ Contains(LowerMessage(error_message), <<"quota">>)
    \/ Contains(LowerMessage(error_message), <<"rate", "limit">>)
    \/ Contains(LowerMessage(error_message), <<"resource", "exhausted">>)

RECURSIVE Pow2(_)
Pow2(n) == IF n = 0 THEN 1 ELSE 2 * Pow2(n - 1)

Failure(rate_limit, at, wait) ==
    [rate_limit |-> rate_limit, attempt |-> at, wait |-> wait]

RetryArgs == 0..(DefaultMaxRetries + 1)

InitRetry ==
    /\ companies = <<>>
    /\ products = <<>>
    /\ last = NoResp
    /\ sessions = [w \in Workers |-> IdleSession]
    /\ max_retries \in RetryArgs
    /\ attempt = 0
    /\ rpc = "loop"
    /\ history = <<>>

\* Line 42, the loop ends: attempt < max_retries is false.
LoopEnds ==
    /\ rpc = "loop"
    /\ ~(attempt < max_retries)
    /\ rpc' = "exhausted"
    /\ UNCHANGED <<companies, products, last, sessions, max_retries, attempt,
                 history>>

\* Line 44: func() returns.
FuncReturns ==
    /\ rpc = "loop"
    /\ attempt < max_retries
    /\ rpc' = "returned"
    /\ UNCHANGED <<companies, products, last, sessions, max_retries, attempt,
                 history>>

\* Lines 56-67: func() raised an error classified as a rate limit.
FuncRateLimited(error_message) ==
    /\ rpc = "loop"
    /\ attempt < max_retries
    /\ Len(history) < MaxCalls
    /\ is_rate_limit(error_message)
    /\ history' = Append(history, Failure(TRUE, attempt, RateLimitWait))
    /\ attempt' = IF attempt + 1 >= max_retries THEN max_retries - 1
                  ELSE attempt + 1
    /\ UNCHANGED <<companies, products, last, sessions, max_retries, rpc>>

\* The other-errors branch written like the rate-limit branch: the error is
\* never raised, attempt is held at max_retries - 1.
FuncFailsKeepsTrying(error_message) ==
    /\ rpc = "loop"
    /\ attempt < max_retries
    /\ Len(history) < MaxCalls
    /\ ~is_rate_limit(error_message)
    /\ history' = Append(history, Failure(FALSE, attempt, Pow2(attempt)))
    /\ attempt' = IF attempt + 1 >= max_retries THEN max_retries - 1
                  ELSE attempt + 1
    /\ UNCHANGED <<companies, products, last, sessions, max_retries, rpc>>

\* Lines 68-76: func() raised any other error.
FuncFails(error_message) ==
    /\ rpc = "loop"
    /\ attempt < max_retries
    /\ Len(history) < MaxCalls
    /\ ~is_rate_limit(error_message)
    /\ IF attempt = max_retries - 1
       THEN /\ rpc' = "raised"
            /\ history' = Append(history, Failure(FALSE, attempt, -1))
            /\ UNCHANGED attempt
       ELSE /\ history' = Append(history, Failure(FALSE, attempt, Pow2(attempt)))
            /\ attempt' = attempt + 1
            /\ UNCHANGED rpc
    /\ UNCHANGED <<companies, products, last, sessions, max_retries>>

NextRetry ==
    \/ LoopEnds
    \/ FuncReturns
    \/ \E error_message \in ErrorMessages : FuncRateLimited(error_message)
    \/ \E error_message \in ErrorMessages : FuncFails(error_message)

SpecRetry == InitRetry /\ [][NextRetry]_vars

\* C10: with max_retries = 3, every failure classified as a rate limit is
\* followed by a wait of 30 seconds, and the first, second and third failure
\* of a call whose failures are all of another kind are followed by waits of
\* 1, 2 and 4 seconds (and not by the error being raised).
C10_Waits ==
    max_retries = DefaultMaxRetries
    => \A i \in 1..Len(history) :
          /\ (history[i].rate_limit => history[i].wait = 30)
          /\ ((i <= 3 /\ \A j \in 1..i : ~history[j].rate_limit)
              => history[i].wait = (CASE i = 1 -> 1 [] i = 2 -> 2 [] i = 3 -> 4))

\* C13 as claimed: retry_with_backoff always ends after a bounded number of
\* calls of func, whatever their outcomes.  The loop's only state is attempt,
\* so the claim is that every call of func either ends the loop (its result
\* returned, its error raised) or, having failed, moves attempt up towards
\* max_retries: a failed call that leaves attempt where it was can be
\* repeated without end.
C13_EveryFailedCallAdvances ==
    [][(rpc = "loop" /\ rpc' = "loop" /\ history' # history)
          => attempt' > attempt]_vars

\* C13, amended: only failures classified as rate limits are retried without
\* a bound.  The failures of another kind of one call are at most
\* max_retries, attempt never goes down, and a failed call leaves attempt
\* where it was only when it was a rate limit at attempt = max_retries - 1;
\* the call raises only the error of a failure of another kind at
\* attempt = max_retries - 1, and the loop runs out (nothing returned, nothing
\* raised) only when max_retries is 0, func never having been called.
C13_EndsUnlessRateLimited ==
    LET others == {i \in 1..Len(history) : ~history[i].rate_limit} IN
    /\ Cardinality(others) <= max_retries
    /\ \A i \in 1..(Len(history) - 1) :
          /\ history[i + 1].attempt >= history[i].attempt
          /\ (history[i + 1].attempt = history[i].attempt
              => /\ history[i].rate_limit
                 /\ history[i].attempt = max_retries - 1)
    /\ (rpc = "loop" /\ history # <<>>
        => /\ attempt >= history[Len(history)].attempt
           /\ (attempt = history[Len(history)].attempt
               => /\ history[Len(history)].rate_limit
                  /\ attempt = max_retries - 1))
    /\ (rpc = "raised"
        => /\ history # <<>>
           /\ ~history[Len(history)].rate_limit
           /\ history[Len(history)].attempt = max_retries - 1)
    /\ (rpc = "exhausted" => max_retries = 0 /\ history = <<>>)

\* A call with the default max_retries that ended by raising after more than
\* max_retries failed calls of func: the calls beyond max_retries were rate
\* limits.
C13_Witness ==
    /\ max_retries = DefaultMaxRetries
    /\ rpc = "raised"
    /\ Len(history) > max_retries
    /\ \E i \in 1..Len(history) : history[i].rate_limit

====
